---- MODULE Spec2Model ----
(***************************************************************************)
(* The token registry of src/lib/stores/tokens/tokens.store.ts: a          *)
(* chain-scoped list of default and custom tokens, its connect/disconnect  *)
(* lifecycle, its lookups and the custom-token add / remove / ban          *)
(* operations, together with the persisted custom-token list they use.     *)
(*                                                                         *)
(* Strings (addresses, symbols) are sequences of character codes, so that  *)
(* String.prototype.toLowerCase is computed and not assumed.               *)
(***************************************************************************)
EXTENDS Integers, Sequences, FiniteSets, TLC

VARIABLES
    chainId,      \* `let chainId: number | undefined`
    tokenList,    \* value of the writable `tokenList`
    connected,    \* value of the writable `connected`
    stored,       \* the persisted custom token list (localstorage)
    browser,      \* `browser` of $app/environment, fixed for a run
    last          \* the last call made on the store: arguments, outcome,
                  \* adapter calls, subscriber deliveries and the state before it

vars == <<chainId, tokenList, connected, stored, browser, last>>

-----------------------------------------------------------------------------
(* Bounds and input sets *)

\* Most records the persisted list may hold.
MaxCustom == 2

\* `chainId` when it is `undefined`.
NoChain == 0

Chains == {1, 2}

\* Addresses: one hexadecimal digit, in either letter case.
Addr_a == <<97>>
Addr_A == <<65>>
Addr_b == <<98>>
Addr_B == <<66>>
Addr_C == <<67>>
Addr_D == <<68>>

Sym_foo == <<102, 111, 111>>
Sym_FOO == <<70, 79, 79>>
Sym_bar == <<98, 97, 114>>
Sym_BAR == <<66, 65, 82>>

TokenInfo(address, chain, symbol) ==
    [address |-> address, chainId |-> chain, symbol |-> symbol]

\* The tokens of the default list: two on chain 1, one on chain 2.
uniswapTokenList ==
    << TokenInfo(Addr_B, 1, Sym_FOO),
       TokenInfo(Addr_C, 2, Sym_BAR),
       TokenInfo(Addr_D, 1, Sym_BAR) >>

\* Token descriptors callers pass to addCustomToken.
TokenInputs ==
    { TokenInfo(Addr_a, 1, Sym_foo),
      TokenInfo(Addr_A, 1, Sym_bar),
      TokenInfo(Addr_b, 1, Sym_foo),
      TokenInfo(Addr_C, 2, Sym_BAR) }

\* Addresses callers pass to the lookups, removeCustomToken and
\* setCustomTokenBanStatus.
AddressInputs == {Addr_a, Addr_A, Addr_b, Addr_C}

SymbolInputs == {Sym_foo, Sym_BAR}

\* Drips asset ids: the numeric value of the address.
AssetIdInputs == {10, 12}

-----------------------------------------------------------------------------
(* Library functions *)

\* String.prototype.toLowerCase on the letters A-Z.
toLowerCase(s) ==
    [i \in DOMAIN s |-> IF s[i] \in 65..90 THEN s[i] + 32 ELSE s[i]]

\* Array.prototype.find: the index of the first element that matches, given
\* the indices of the elements that match; 0 when none does.
FindIndex(matching) ==
    IF matching = {} THEN 0
    ELSE CHOOSE i \in matching : \A j \in matching : i <= j

\* Utils.Asset.getAddressFromId: the id as a hexadecimal address, the
\* letters in the upper case of the checksum form.
getAddressFromId(id) == <<IF id < 10 THEN id + 48 ELSE id + 55>>

-----------------------------------------------------------------------------
(* Values *)

DefaultWrapper(info) == [info |-> info, source |-> "default"]

CustomWrapper(info, banned) ==
    [info |-> info, source |-> "custom", banned |-> banned]

\* The writable's value: `undefined`, or a list of wrappers.
Undefined == [defined |-> FALSE, tokens |-> <<>>]
Defined(tokens) == [defined |-> TRUE, tokens |-> tokens]

\* What a lookup returns: `undefined`, or a wrapper.
NotFoundRet == [found |-> FALSE]
FoundRet(t) == [found |-> TRUE, token |-> t]

-----------------------------------------------------------------------------
(* The persisted custom token list (stored-custom-tokens): a durable list  *)
(* of custom wrappers with at most one record per address and chain.       *)

StoredIndex(list, address, chain) ==
    FindIndex({i \in DOMAIN list :
        list[i].info.address = address /\ list[i].info.chainId = chain})

readCustomTokensList(list) == list

createCustomToken(list, tokenInfo) ==
    LET i == StoredIndex(list, tokenInfo.address, tokenInfo.chainId)
        new == CustomWrapper(tokenInfo, FALSE)
    IN  IF i = 0 THEN Append(list, new) ELSE [list EXCEPT ![i] = new]

deleteCustomToken(list, token) ==
    LET i == StoredIndex(list, token.info.address, token.info.chainId)
    IN  IF i = 0 THEN list
        ELSE SubSeq(list, 1, i - 1) \o SubSeq(list, i + 1, Len(list))

updateCustomToken(list, address, newValue) ==
    LET i == StoredIndex(list, address, newValue.info.chainId)
    IN  IF i = 0 THEN list ELSE [list EXCEPT ![i] = newValue]

-----------------------------------------------------------------------------
(* svelte/store writable: what set() delivers to a subscriber *)

\* The list compared by value, as a primitive is.
TokenListDiffers(old, new) == old # new

\* safe_not_equal(old, new) for the token list: a new array is never equal
\* to the old value; undefined equals undefined.
TokenListNotifies(old, new) == old.defined \/ new.defined

\* safe_not_equal(old, new) for the boolean `connected`.
ConnectedNotifies(old, new) == old # new

\* One delivery to a subscriber: the store set, the value delivered, and
\* what a read of the two writables gives at that moment (whether the list
\* is present, and `connected`).
Note(store, value, present, conn) ==
    [store |-> store, value |-> value, present |-> present, connected |-> conn]

TokenListNotes(old, new, conn) ==
    IF TokenListNotifies(old, new)
    THEN <<Note("tokenList", new, new.defined, conn)>> ELSE <<>>

ConnectedNotes(old, new, tl) ==
    IF ConnectedNotifies(old, new)
    THEN <<Note("connected", new, tl.defined, new)>> ELSE <<>>

-----------------------------------------------------------------------------
(* Lookups *)

\* The default parameter `chain = chainId`: NoChain stands for an omitted
\* argument.
DefaultChain(chain) == IF chain = NoChain THEN chainId ELSE chain

AddressMatch(t, address, chain) ==
    /\ toLowerCase(t.info.address) = toLowerCase(address)
    /\ t.info.chainId = chain

\* The symbols compared as they are written.
SymbolMatchExact(t, symbol, chain) ==
    /\ t.info.symbol = symbol
    /\ t.info.chainId = chain

SymbolMatch(t, symbol, chain) ==
    /\ toLowerCase(t.info.symbol) = toLowerCase(symbol)
    /\ t.info.chainId = chain

\* The guard skipped.
NeverNoTokens(tl) == FALSE

\* `if (!tokens) return;`
NoTokens(tl) == ~tl.defined

FoundAt(tl, i) == IF i = 0 THEN NotFoundRet ELSE FoundRet(tl.tokens[i])

AddressIndex(tl, address, chain) ==
    FindIndex({i \in DOMAIN tl.tokens : AddressMatch(tl.tokens[i], address, chain)})

getByAddress(tl, address, chain) ==
    IF NoTokens(tl) THEN NotFoundRet
    ELSE FoundAt(tl, AddressIndex(tl, address, chain))

getBySymbol(tl, symbol, chain) ==
    IF NoTokens(tl) THEN NotFoundRet
    ELSE FoundAt(tl, FindIndex({i \in DOMAIN tl.tokens :
                        SymbolMatch(tl.tokens[i], symbol, chain)}))

\* The address of the asset id compared as it is written.
getByDripsAssetIdExact(tl, dripsAssetId, chain) ==
    IF NoTokens(tl) THEN NotFoundRet
    ELSE FoundAt(tl, FindIndex({i \in DOMAIN tl.tokens :
            /\ tl.tokens[i].info.address = getAddressFromId(dripsAssetId)
            /\ tl.tokens[i].info.chainId = chain}))

getByDripsAssetId(tl, dripsAssetId, chain) ==
    IF NoTokens(tl) THEN NotFoundRet
    ELSE FoundAt(tl, FindIndex({i \in DOMAIN tl.tokens :
            AddressMatch(tl.tokens[i], getAddressFromId(dripsAssetId), chain)}))

-----------------------------------------------------------------------------
(* The record of a call *)

PreState ==
    [chainId |-> chainId, tokenList |-> tokenList,
     connected |-> connected, stored |-> stored]

\* op: the function called; args: its arguments; err: the assertion that
\* threw ("none" when the call returned); ret: a lookup's result; calls: the
\* calls made on the persisted list; notes: the deliveries to subscribers;
\* pre: the state the call started in.
Call(op, args, err, ret, calls, notes) ==
    [op |-> op, args |-> args, err |-> err, ret |-> ret,
     calls |-> calls, notes |-> notes, pre |-> PreState]

AdapterCall(fn, arg) == [fn |-> fn, arg |-> arg]

NoArgs == [none |-> TRUE]

-----------------------------------------------------------------------------
(* connect / disconnect *)

\* connect without the chain filter on the persisted list.
customTokensUnfiltered(toChainId) ==
    IF browser THEN readCustomTokensList(stored) ELSE <<>>

customTokensFor(toChainId) ==
    IF browser
    THEN SelectSeq(readCustomTokensList(stored),
                   LAMBDA t : t.info.chainId = toChainId)
    ELSE <<>>

defaultTokensFor(toChainId) ==
    LET onChain == SelectSeq(uniswapTokenList, LAMBDA t : t.chainId = toChainId)
    IN  [i \in DOMAIN onChain |-> DefaultWrapper(onChain[i])]

ConnectedList(toChainId) ==
    Defined(defaultTokensFor(toChainId) \o customTokensFor(toChainId))

connect(toChainId) ==
    LET new == ConnectedList(toChainId)
    IN  /\ chainId' = toChainId
        /\ tokenList' = new
        /\ connected' = TRUE
        /\ UNCHANGED <<stored, browser>>
        /\ last' = Call("connect", [chain |-> toChainId], "none", NotFoundRet,
                        IF browser
                        THEN <<AdapterCall("readCustomTokensList", NoArgs)>>
                        ELSE <<>>,
                        TokenListNotes(tokenList, new, connected)
                            \o ConnectedNotes(connected, TRUE, new))

\* The chain id left as it was.
StaleChainId == chainId

DisconnectedChainId == NoChain

DisconnectedList == Undefined

disconnect ==
    /\ chainId' = DisconnectedChainId
    /\ tokenList' = DisconnectedList
    /\ connected' = FALSE
    /\ UNCHANGED <<stored, browser>>
    /\ last' = Call("disconnect", NoArgs, "none", NotFoundRet, <<>>,
                    TokenListNotes(tokenList, DisconnectedList, connected)
                        \o ConnectedNotes(connected, FALSE, DisconnectedList))

-----------------------------------------------------------------------------
(* Lookup calls *)

Lookup(op, args, ret) ==
    /\ UNCHANGED <<chainId, tokenList, connected, stored, browser>>
    /\ last' = Call(op, args, "none", ret, <<>>, <<>>)

LookupByAddress(address, chain) ==
    Lookup("getByAddress", [address |-> address, chain |-> chain],
           getByAddress(tokenList, address, DefaultChain(chain)))

LookupBySymbol(symbol, chain) ==
    Lookup("getBySymbol", [symbol |-> symbol, chain |-> chain],
           getBySymbol(tokenList, symbol, DefaultChain(chain)))

LookupByDripsAssetId(dripsAssetId, chain) ==
    Lookup("getByDripsAssetId", [dripsAssetId |-> dripsAssetId, chain |-> chain],
           getByDripsAssetId(tokenList, dripsAssetId, DefaultChain(chain)))

-----------------------------------------------------------------------------
(* Custom tokens *)

\* The early return of a call made while the list is absent.
NotConnectedReturn(op, args) ==
    /\ UNCHANGED <<chainId, tokenList, connected, stored, browser>>
    /\ last' = Call(op, args, "none", NotFoundRet, <<>>, <<>>)

\* A failed assert: the call throws before any write.
Throws(op, args, err) ==
    /\ UNCHANGED <<chainId, tokenList, connected, stored, browser>>
    /\ last' = Call(op, args, err, NotFoundRet, <<>>, <<>>)

\* The duplicate check looking at custom entries only.
AddressExistsAmongCustom(tokens, tokenInfo) ==
    \E i \in DOMAIN tokens :
        /\ tokens[i].source = "custom"
        /\ tokens[i].info.address = tokenInfo.address

\* `tokens.find((t) => t.info.address === tokenInfo.address)`
AddressExists(tokens, tokenInfo) ==
    \E i \in DOMAIN tokens : tokens[i].info.address = tokenInfo.address

\* The token appended whatever its chain.
AddedTokensAnyChain(tokens, tokenInfo, chain) ==
    Append(tokens, CustomWrapper(tokenInfo, FALSE))

\* The list addCustomToken leaves: unchanged for a token of another chain.
AddedTokens(tokens, tokenInfo, chain) ==
    IF tokenInfo.chainId # chain THEN tokens
    ELSE Append(tokens, CustomWrapper(tokenInfo, FALSE))

addCustomToken(tokenInfo) ==
    LET args == [tokenInfo |-> tokenInfo]
        tokens == tokenList.tokens
        new == Defined(AddedTokens(tokens, tokenInfo, chainId))
    IN  IF NoTokens(tokenList) THEN NotConnectedReturn("addCustomToken", args)
        ELSE IF AddressExists(tokens, tokenInfo)
        THEN Throws("addCustomToken", args, "AlreadyExists")
        ELSE /\ Len(createCustomToken(stored, tokenInfo)) <= MaxCustom
             /\ stored' = createCustomToken(stored, tokenInfo)
             /\ tokenList' = new
             /\ UNCHANGED <<chainId, connected, browser>>
             /\ last' = Call("addCustomToken", args, "none", NotFoundRet,
                             <<AdapterCall("createCustomToken", tokenInfo)>>,
                             IF tokenInfo.chainId # chainId THEN <<>>
                             ELSE TokenListNotes(tokenList, new, connected))

\* The assertion without its source check.
IsAnyToken(ret) == ret.found

\* `token && token.source === 'custom'`
IsCustomToken(ret) == ret.found /\ ret.token.source = "custom"

\* The filter comparing the raw addresses.
RemovedTokensExact(tokens, token) ==
    SelectSeq(tokens, LAMBDA v : v.info.address # token.info.address)

\* `tokens.filter((v) => v.info.address.toLowerCase() !== ...)`
RemovedTokens(tokens, token) ==
    SelectSeq(tokens, LAMBDA v :
        toLowerCase(v.info.address) # toLowerCase(token.info.address))

removeCustomToken(address, chain) ==
    LET args == [address |-> address, chain |-> chain]
        ret == getByAddress(tokenList, address, chain)
        new == Defined(RemovedTokens(tokenList.tokens, ret.token))
    IN  IF NoTokens(tokenList) THEN NotConnectedReturn("removeCustomToken", args)
        ELSE IF ~IsCustomToken(ret)
        THEN Throws("removeCustomToken", args, "NotFound")
        ELSE /\ stored' = deleteCustomToken(stored, ret.token)
             /\ tokenList' = new
             /\ UNCHANGED <<chainId, connected, browser>>
             /\ last' = Call("removeCustomToken", args, "none", ret,
                             <<AdapterCall("deleteCustomToken", ret.token)>>,
                             TokenListNotes(tokenList, new, connected))

\* The flag set whatever the argument.
AlwaysBannedValue(token, banned) ==
    [f \in DOMAIN token \cup {"banned"} |->
        IF f = "banned" THEN TRUE ELSE token[f]]

\* `{ ...token, banned }`: the fields of `token`, with `banned` set or added.
BannedValue(token, banned) ==
    [f \in DOMAIN token \cup {"banned"} |->
        IF f = "banned" THEN banned ELSE token[f]]

\* `tokens.splice(tokens.indexOf(token), 1, newValue)`
SplicedTokens(tokens, index, newValue) == [tokens EXCEPT ![index] = newValue]

setCustomTokenBanStatus(address, chain, banned) ==
    LET args == [address |-> address, chain |-> chain, banned |-> banned]
        ret == getByAddress(tokenList, address, chain)
        newValue == BannedValue(ret.token, banned)
        new == Defined(SplicedTokens(tokenList.tokens,
                         AddressIndex(tokenList, address, chain), newValue))
    IN  IF NoTokens(tokenList)
        THEN NotConnectedReturn("setCustomTokenBanStatus", args)
        ELSE IF ~IsCustomToken(ret)
        THEN Throws("setCustomTokenBanStatus", args, "NotFound")
        ELSE /\ stored' = updateCustomToken(stored, address, newValue)
             /\ tokenList' = new
             /\ UNCHANGED <<chainId, connected, browser>>
             /\ last' = Call("setCustomTokenBanStatus", args, "none", ret,
                             <<AdapterCall("updateCustomToken",
                                 [address |-> address, newValue |-> newValue])>>,
                             TokenListNotes(tokenList, new, connected))

-----------------------------------------------------------------------------
(* Specification *)

Init ==
    /\ chainId = NoChain
    /\ tokenList = Undefined
    /\ connected = FALSE
    /\ stored = <<>>
    /\ browser \in BOOLEAN
    /\ last = [op |-> "none", args |-> NoArgs, err |-> "none",
               ret |-> NotFoundRet, calls |-> <<>>, notes |-> <<>>,
               pre |-> [chainId |-> NoChain, tokenList |-> Undefined,
                        connected |-> FALSE, stored |-> <<>>]]

Next ==
    \/ \E c \in Chains : connect(c)
    \/ disconnect
    \/ \E a \in AddressInputs, c \in Chains \cup {NoChain} : LookupByAddress(a, c)
    \/ \E s \in SymbolInputs, c \in Chains \cup {NoChain} : LookupBySymbol(s, c)
    \/ \E id \in AssetIdInputs, c \in Chains \cup {NoChain} :
          LookupByDripsAssetId(id, c)
    \/ \E t \in TokenInputs : addCustomToken(t)
    \/ \E a \in AddressInputs, c \in Chains : removeCustomToken(a, c)
    \/ \E a \in AddressInputs, c \in Chains, b \in BOOLEAN :
          setCustomTokenBanStatus(a, c, b)

Spec == Init /\ [][Next]_vars

-----------------------------------------------------------------------------
(* The custom-token calls in two steps, the write to the persisted list and *)
(* the commit of the list, with execution able to stop between the two: the *)
(* page is left and the store is constructed anew.                          *)

\* A call has written to the persisted list and not yet committed the list.
Pending == last.err = "pending"

\* The list committed before the write to the persisted list.
addCustomTokenCommitFirst(tokenInfo) ==
    /\ ~Pending
    /\ ~NoTokens(tokenList)
    /\ ~AddressExists(tokenList.tokens, tokenInfo)
    /\ Len(createCustomToken(stored, tokenInfo)) <= MaxCustom
    /\ tokenList' = Defined(AddedTokens(tokenList.tokens, tokenInfo, chainId))
    /\ UNCHANGED <<chainId, stored, connected, browser>>
    /\ last' = Call("addCustomToken", [tokenInfo |-> tokenInfo], "pending",
                    NotFoundRet, <<>>, <<>>)

\* addCustomToken up to `storedTokens.createCustomToken(tokenInfo)`.
addCustomTokenWrite(tokenInfo) ==
    /\ ~Pending
    /\ ~NoTokens(tokenList)
    /\ ~AddressExists(tokenList.tokens, tokenInfo)
    /\ Len(createCustomToken(stored, tokenInfo)) <= MaxCustom
    /\ stored' = createCustomToken(stored, tokenInfo)
    /\ UNCHANGED <<chainId, tokenList, connected, browser>>
    /\ last' = Call("addCustomToken", [tokenInfo |-> tokenInfo], "pending",
                    NotFoundRet,
                    <<AdapterCall("createCustomToken", tokenInfo)>>, <<>>)

\* removeCustomToken up to `storedTokens.deleteCustomToken(token)`.
removeCustomTokenWrite(address, chain) ==
    LET ret == getByAddress(tokenList, address, chain)
    IN  /\ ~Pending
        /\ ~NoTokens(tokenList)
        /\ IsCustomToken(ret)
        /\ stored' = deleteCustomToken(stored, ret.token)
        /\ UNCHANGED <<chainId, tokenList, connected, browser>>
        /\ last' = Call("removeCustomToken",
                        [address |-> address, chain |-> chain], "pending", ret,
                        <<AdapterCall("deleteCustomToken", ret.token)>>, <<>>)

\* setCustomTokenBanStatus up to `storedTokens.updateCustomToken(...)`.
setCustomTokenBanStatusWrite(address, chain, banned) ==
    LET ret == getByAddress(tokenList, address, chain)
        newValue == BannedValue(ret.token, banned)
    IN  /\ ~Pending
        /\ ~NoTokens(tokenList)
        /\ IsCustomToken(ret)
        /\ stored' = updateCustomToken(stored, address, newValue)
        /\ UNCHANGED <<chainId, tokenList, connected, browser>>
        /\ last' = Call("setCustomTokenBanStatus",
                        [address |-> address, chain |-> chain, banned |-> banned],
                        "pending", ret,
                        <<AdapterCall("updateCustomToken",
                            [address |-> address, newValue |-> newValue])>>, <<>>)

\* The list the pending call commits.
CommittedList ==
    IF last.op = "addCustomToken"
    THEN Defined(AddedTokens(tokenList.tokens, last.args.tokenInfo, chainId))
    ELSE IF last.op = "removeCustomToken"
    THEN Defined(RemovedTokens(tokenList.tokens, last.ret.token))
    ELSE Defined(SplicedTokens(tokenList.tokens,
                    AddressIndex(tokenList, last.args.address, last.args.chain),
                    BannedValue(last.ret.token, last.args.banned)))

\* The rest of the pending call: the list is set, unless the token added is
\* of another chain.
Commit ==
    LET skipped == /\ last.op = "addCustomToken"
                   /\ last.args.tokenInfo.chainId # chainId
    IN  /\ Pending
        /\ tokenList' = CommittedList
        /\ UNCHANGED <<chainId, connected, stored, browser>>
        /\ last' = [last EXCEPT
                      !.err = "none",
                      !.ret = IF last.op = "addCustomToken" THEN NotFoundRet ELSE @,
                      !.notes = IF skipped THEN <<>>
                                ELSE TokenListNotes(tokenList, CommittedList, connected)]

\* Execution stops before the commit: the store starts again, disconnected,
\* and the persisted list keeps what was written.
Crash ==
    /\ Pending
    /\ chainId' = NoChain
    /\ tokenList' = Undefined
    /\ connected' = FALSE
    /\ UNCHANGED <<stored, browser>>
    /\ last' = [last EXCEPT !.err = "crashed"]

\* The calls that return or throw before any write.
addCustomTokenRejected(tokenInfo) ==
    /\ NoTokens(tokenList) \/ AddressExists(tokenList.tokens, tokenInfo)
    /\ addCustomToken(tokenInfo)

removeCustomTokenRejected(address, chain) ==
    /\ NoTokens(tokenList) \/ ~IsCustomToken(getByAddress(tokenList, address, chain))
    /\ removeCustomToken(address, chain)

setCustomTokenBanStatusRejected(address, chain, banned) ==
    /\ NoTokens(tokenList) \/ ~IsCustomToken(getByAddress(tokenList, address, chain))
    /\ setCustomTokenBanStatus(address, chain, banned)

\* The lookups write nothing and are left to Next.
NextCrash ==
    \/ /\ ~Pending
       /\ \/ \E c \in Chains : connect(c)
          \/ disconnect
          \/ \E t \in TokenInputs : addCustomTokenRejected(t)
          \/ \E a \in AddressInputs, c \in Chains : removeCustomTokenRejected(a, c)
          \/ \E a \in AddressInputs, c \in Chains, b \in BOOLEAN :
                setCustomTokenBanStatusRejected(a, c, b)
    \/ \E t \in TokenInputs : addCustomTokenWrite(t)
    \/ \E a \in AddressInputs, c \in Chains : removeCustomTokenWrite(a, c)
    \/ \E a \in AddressInputs, c \in Chains, b \in BOOLEAN :
          setCustomTokenBanStatusWrite(a, c, b)
    \/ Commit
    \/ Crash

SpecCrash == Init /\ [][NextCrash]_vars

-----------------------------------------------------------------------------
(* Properties *)

Tokens == tokenList.tokens

PreTokens == last.pre.tokenList.tokens

\* The call recorded in `last` left the list and the persisted list as they
\* were and made no call on the persisted list.
LastChangedNothing ==
    /\ tokenList = last.pre.tokenList
    /\ stored = last.pre.stored
    /\ chainId = last.pre.chainId
    /\ connected = last.pre.connected
    /\ last.calls = <<>>

\* The call recorded in `last` was made while the list was present.
LastWhileConnected(op) == last.op = op /\ last.pre.tokenList.defined

\* C1: while connected, every entry of the list is on the chain passed to the
\* most recent connect.
C1_EntriesOnActiveChain ==
    /\ last.op = "connect" => chainId = last.args.chain
    /\ tokenList.defined =>
          /\ chainId \in Chains
          /\ \A i \in DOMAIN Tokens : Tokens[i].info.chainId = chainId

\* connect(2) after connect(1), with a custom token of chain 1 in the list
\* that connect(2) replaces.
C1_Witness ==
    /\ last.op = "connect"
    /\ last.pre.chainId = 1
    /\ chainId = 2
    /\ \E i \in DOMAIN PreTokens : PreTokens[i].source = "custom"
    /\ Len(stored) > 0

\* C2: while connected, no two entries of the list have the same lower-cased
\* address and chain.
C2_UniqueAddressChain ==
    tokenList.defined =>
        \A i, j \in DOMAIN Tokens :
            (/\ toLowerCase(Tokens[i].info.address) = toLowerCase(Tokens[j].info.address)
             /\ Tokens[i].info.chainId = Tokens[j].info.chainId) => i = j

\* The custom entries of a list, in list order.
CustomEntries(tokens) == SelectSeq(tokens, LAMBDA t : t.source = "custom")

\* C3: in a browser, while connected, the custom entries of the list are the
\* persisted records of the active chain, so that disconnect and connect to
\* the same chain give the same custom entries again.
C3_CustomEntriesArePersisted ==
    (browser /\ tokenList.defined) =>
        /\ CustomEntries(Tokens)
              = SelectSeq(stored, LAMBDA t : t.info.chainId = chainId)
        /\ CustomEntries(ConnectedList(chainId).tokens) = CustomEntries(Tokens)

\* C4: addCustomToken of an address some entry already has throws
\* AlreadyExists and changes nothing.
C4_AddExistingFails ==
    (/\ LastWhileConnected("addCustomToken")
     /\ \E i \in DOMAIN PreTokens :
            PreTokens[i].info.address = last.args.tokenInfo.address)
    => (last.err = "AlreadyExists" /\ LastChangedNothing)

\* A rejected add of the address of a default entry, and of a custom entry.
C4_Witness ==
    /\ LastWhileConnected("addCustomToken")
    /\ last.err = "AlreadyExists"
    /\ \E i \in DOMAIN PreTokens :
          /\ PreTokens[i].source = "default"
          /\ PreTokens[i].info.address = last.args.tokenInfo.address
    /\ Len(stored) > 0

\* C5: removeCustomToken and setCustomTokenBanStatus throw NotFound and change
\* nothing when getByAddress finds no entry or a default entry.
C5_RemoveBanNotFound ==
    (/\ \/ LastWhileConnected("removeCustomToken")
        \/ LastWhileConnected("setCustomTokenBanStatus")
     /\ LET r == getByAddress(last.pre.tokenList, last.args.address, last.args.chain)
        IN  ~r.found \/ r.token.source = "default")
    => (last.err = "NotFound" /\ LastChangedNothing)

\* A ban rejected because the lookup found a default entry.
C5_Witness ==
    /\ LastWhileConnected("setCustomTokenBanStatus")
    /\ last.err = "NotFound"
    /\ getByAddress(last.pre.tokenList, last.args.address, last.args.chain).found
    /\ Len(stored) > 0

\* The call recorded in `last` was made while the list was present and
\* returned without throwing.
LastOk(op) == LastWhileConnected(op) /\ last.err = "none"

C7_AddEffect ==
    LastOk("addCustomToken") =>
        LET d == last.args.tokenInfo
        IN  /\ last.calls = <<AdapterCall("createCustomToken", d)>>
            /\ \E i \in DOMAIN stored : stored[i] = CustomWrapper(d, FALSE)
            /\ IF d.chainId # last.pre.chainId
               THEN tokenList = last.pre.tokenList
               ELSE Tokens = Append(PreTokens, CustomWrapper(d, FALSE))

\* A successful add of a token of another chain, to a list holding a custom
\* entry.
C7_Witness ==
    /\ LastOk("addCustomToken")
    /\ last.args.tokenInfo.chainId # chainId
    /\ \E i \in DOMAIN Tokens : Tokens[i].source = "custom"

\* C8: after a successful addCustomToken(d), an immediately following
\* addCustomToken(d) throws AlreadyExists and does not write to the persisted
\* list again.
C8_SecondAddFails ==
    [][(/\ LastOk("addCustomToken")
        /\ last'.op = "addCustomToken"
        /\ last'.args = last.args)
       => (/\ last'.err = "AlreadyExists"
           /\ last'.calls = <<>>
           /\ stored' = stored)]_vars

\* C9: the store is disconnected at first; `connected` is false exactly when
\* the list and the chain id are absent; connect leads to connected,
\* disconnect to disconnected, and no other call changes `connected`.
C9_TwoStates ==
    /\ ~connected
    /\ [](/\ connected => (tokenList.defined /\ chainId # NoChain)
          /\ ~connected => (~tokenList.defined /\ chainId = NoChain))
    /\ [][/\ last'.op = "connect" => connected'
          /\ last'.op = "disconnect" => ~connected'
          /\ last'.op \notin {"connect", "disconnect"} => connected' = connected]_vars

\* A disconnect of a connected store that holds a custom entry.
C9_Witness ==
    /\ last.op = "disconnect"
    /\ last.pre.connected
    /\ \E i \in DOMAIN PreTokens : PreTokens[i].source = "custom"
    /\ ~connected

LookupOps == {"getByAddress", "getBySymbol", "getByDripsAssetId"}

MutatorOps == {"addCustomToken", "removeCustomToken", "setCustomTokenBanStatus"}

\* C10: while disconnected, every lookup returns not-found, and
\* addCustomToken, removeCustomToken and setCustomTokenBanStatus return
\* without an error and change nothing.
C10_DisconnectedNoOps ==
    /\ ~connected =>
          /\ \A a \in AddressInputs, c \in Chains \cup {NoChain} :
                getByAddress(tokenList, a, DefaultChain(c)) = NotFoundRet
          /\ \A s \in SymbolInputs, c \in Chains \cup {NoChain} :
                getBySymbol(tokenList, s, DefaultChain(c)) = NotFoundRet
          /\ \A id \in AssetIdInputs, c \in Chains \cup {NoChain} :
                getByDripsAssetId(tokenList, id, DefaultChain(c)) = NotFoundRet
    /\ (~last.pre.connected /\ last.op \in LookupOps) =>
          (last.ret = NotFoundRet /\ last.err = "none")
    /\ (~last.pre.connected /\ last.op \in MutatorOps) =>
          (last.err = "none" /\ LastChangedNothing /\ last.notes = <<>>)

\* An addCustomToken call on a disconnected store whose persisted list holds
\* a record.
C10_Witness ==
    /\ ~last.pre.connected
    /\ last.op = "addCustomToken"
    /\ last.err = "none"
    /\ Len(stored) > 0

\* The default entries of a list, in list order.
DefaultEntries(tokens) == SelectSeq(tokens, LAMBDA t : t.source = "default")

\* The default list filtered to a chain, in its own order, as default entries.
CatalogEntries(chain) ==
    LET onChain == SelectSeq(uniswapTokenList, LAMBDA t : t.chainId = chain)
    IN  [i \in DOMAIN onChain |-> [info |-> onChain[i], source |-> "default"]]

\* C11: while connected, the default entries of the list are the default
\* catalog filtered to the active chain, in catalog order: no add, remove or
\* ban removes, reorders or alters one.
C11_DefaultsUntouched ==
    tokenList.defined => DefaultEntries(Tokens) = CatalogEntries(chainId)

\* A successful removeCustomToken from a list that holds a custom entry whose
\* lower-cased address is that of a default entry.
C11_Witness ==
    /\ LastOk("removeCustomToken")
    /\ Len(Tokens) < Len(PreTokens)
    /\ \E i, j \in DOMAIN Tokens :
          /\ Tokens[i].source = "default"
          /\ Tokens[j].source = "custom"
          /\ toLowerCase(Tokens[i].info.address) = toLowerCase(Tokens[j].info.address)

\* C12: every custom entry of the list is removable and bannable by its own
\* address and chain: the call does not throw, and a ban sets the flag of
\* that entry.
C12_CustomRemovableBannable ==
    \A i \in DOMAIN PreTokens :
        (/\ \/ LastWhileConnected("removeCustomToken")
            \/ LastWhileConnected("setCustomTokenBanStatus")
         /\ PreTokens[i].source = "custom"
         /\ PreTokens[i].info.address = last.args.address
         /\ PreTokens[i].info.chainId = last.args.chain)
        => /\ last.err = "none"
           /\ last.op = "setCustomTokenBanStatus" =>
                 Tokens[i] = CustomWrapper(PreTokens[i].info, last.args.banned)

\* C13: no subscriber is notified, during connect or disconnect, while the
\* list is present and `connected` is false, or the list is absent and
\* `connected` is true.
C13_ConsistentDeliveries ==
    last.op \in {"connect", "disconnect"} =>
        \A n \in DOMAIN last.notes :
            last.notes[n].present = last.notes[n].connected

\* The persisted records of a chain, in the order of the persisted list.
PersistedOn(chain) == SelectSeq(stored, LAMBDA t : t.info.chainId = chain)

RecordsOf(list, token) ==
    Cardinality({i \in DOMAIN list :
        /\ list[i].info.address = token.info.address
        /\ list[i].info.chainId = token.info.chainId})

\* C15: a successful removeCustomToken(addr, C) deletes the persisted record
\* of the custom entry found, leaves the previous list without the
\* entries whose lower-cased address is that of addr, the others in their
\* order, and getByAddress(addr, C) then finds nothing.
C15_RemoveEffect ==
    LastOk("removeCustomToken") =>
        LET found == getByAddress(last.pre.tokenList, last.args.address,
                                  last.args.chain)
        IN  /\ found.found /\ found.token.source = "custom"
            /\ last.calls = <<AdapterCall("deleteCustomToken", found.token)>>
            /\ Len(stored) = Len(last.pre.stored) - 1
            /\ RecordsOf(stored, found.token)
                  = RecordsOf(last.pre.stored, found.token) - 1
            /\ Tokens = SelectSeq(PreTokens, LAMBDA v :
                  toLowerCase(v.info.address) # toLowerCase(last.args.address))
            /\ getByAddress(tokenList, last.args.address, last.args.chain)
                  = NotFoundRet

\* A successful remove that takes two entries out of the list: two custom
\* entries whose addresses differ in letter case only.
C15_Witness ==
    /\ LastOk("removeCustomToken")
    /\ Len(Tokens) + 2 = Len(PreTokens)

\* C16: a successful setCustomTokenBanStatus(addr, C, b) leaves the list with
\* the same length and entries, but for the entry getByAddress(addr, C) found,
\* which has banned = b; the persisted record of that token has banned = b
\* and no other persisted record changes.
C16_BanEffect ==
    LastOk("setCustomTokenBanStatus") =>
        LET i == AddressIndex(last.pre.tokenList, last.args.address,
                              last.args.chain)
            newValue == CustomWrapper(PreTokens[i].info, last.args.banned)
        IN  /\ Len(Tokens) = Len(PreTokens)
            /\ \A k \in DOMAIN Tokens :
                  Tokens[k] = IF k = i THEN newValue ELSE PreTokens[k]
            /\ Len(stored) = Len(last.pre.stored)
            /\ \A k \in DOMAIN stored :
                  stored[k] = IF last.pre.stored[k].info = PreTokens[i].info
                              THEN newValue ELSE last.pre.stored[k]
            /\ \E k \in DOMAIN stored : stored[k] = newValue

\* C18: while connected, every default entry precedes every custom entry, and
\* getBySymbol and getByAddress return the first entry, in list order, that
\* matches (symbol or address compared in lower case, chain exactly), hence a
\* default entry whenever one matches, and not-found when none does.
C18_FirstMatchDefaultsFirst ==
    tokenList.defined =>
        /\ \A i, j \in DOMAIN Tokens :
              (Tokens[i].source = "default" /\ Tokens[j].source = "custom") => i < j
        /\ \A s \in SymbolInputs, c \in Chains :
              LET hit(k) == /\ toLowerCase(Tokens[k].info.symbol) = toLowerCase(s)
                            /\ Tokens[k].info.chainId = c
                  r == getBySymbol(tokenList, s, c)
              IN  /\ r.found <=> \E k \in DOMAIN Tokens : hit(k)
                  /\ r.found => \E k \in DOMAIN Tokens :
                        /\ hit(k) /\ r.token = Tokens[k]
                        /\ \A h \in 1..(k - 1) : ~hit(h)
                  /\ (\E k \in DOMAIN Tokens : hit(k) /\ Tokens[k].source = "default")
                        => r.token.source = "default"
        /\ \A a \in AddressInputs, c \in Chains :
              LET hit(k) == /\ toLowerCase(Tokens[k].info.address) = toLowerCase(a)
                            /\ Tokens[k].info.chainId = c
                  r == getByAddress(tokenList, a, c)
              IN  /\ r.found <=> \E k \in DOMAIN Tokens : hit(k)
                  /\ r.found => \E k \in DOMAIN Tokens :
                        /\ hit(k) /\ r.token = Tokens[k]
                        /\ \A h \in 1..(k - 1) : ~hit(h)
                  /\ (\E k \in DOMAIN Tokens : hit(k) /\ Tokens[k].source = "default")
                        => r.token.source = "default"
        /\ last.op = "getBySymbol" =>
              last.ret = getBySymbol(tokenList, last.args.symbol,
                                     DefaultChain(last.args.chain))

\* A getBySymbol call that returns a default entry whose symbol differs in
\* letter case from the one asked for, while a custom entry matches too.
C18_Witness ==
    /\ LastWhileConnected("getBySymbol")
    /\ last.ret.found
    /\ last.ret.token.source = "default"
    /\ last.ret.token.info.symbol # last.args.symbol
    /\ \E k \in DOMAIN Tokens :
          /\ Tokens[k].source = "custom"
          /\ toLowerCase(Tokens[k].info.symbol) = toLowerCase(last.args.symbol)

\* C19: getByDripsAssetId(a, c) returns what getByAddress returns for the
\* address of a, in every state; not-found when disconnected and when c is
\* not the active chain.
C19_AssetIdDelegates ==
    /\ \A id \in AssetIdInputs, c \in Chains \cup {NoChain} :
          LET r == getByDripsAssetId(tokenList, id, DefaultChain(c))
          IN  /\ r = getByAddress(tokenList, getAddressFromId(id), DefaultChain(c))
              /\ (~connected \/ DefaultChain(c) # chainId) => r = NotFoundRet
    /\ last.op = "getByDripsAssetId" =>
          last.ret = getByAddress(tokenList, getAddressFromId(last.args.dripsAssetId),
                                  DefaultChain(last.args.chain))

\* A getByDripsAssetId call that finds a custom entry whose address differs
\* in letter case from the address of the asset id.
C19_Witness ==
    /\ LastWhileConnected("getByDripsAssetId")
    /\ last.ret.found
    /\ last.ret.token.source = "custom"
    /\ last.ret.token.info.address # getAddressFromId(last.args.dripsAssetId)

\* The deliveries of the last call to the subscribers of the token list.
ListNotes == SelectSeq(last.notes, LAMBDA n : n.store = "tokenList")

\* The last call committed a list: connect, disconnect of a connected store,
\* addCustomToken of a token of the active chain, a successful remove or ban.
LastCommitted ==
    \/ last.op = "connect"
    \/ last.op = "disconnect" /\ last.pre.connected
    \/ LastOk("addCustomToken") /\ last.args.tokenInfo.chainId = last.pre.chainId
    \/ LastOk("removeCustomToken")
    \/ LastOk("setCustomTokenBanStatus")

\* C20: the subscribers of the list are notified once, with the list the call
\* leaves, by every call that commits a list, and not at all by a call that
\* fails or does nothing.
C20_OneNotePerCommit ==
    IF LastCommitted
    THEN Len(ListNotes) = 1 /\ ListNotes[1].value = tokenList
    ELSE ListNotes = <<>> /\ tokenList = last.pre.tokenList

\* A second connect to the same chain, which sets an equal list again.
C20_Witness ==
    /\ last.op = "connect"
    /\ last.pre.tokenList = tokenList
    /\ Len(ListNotes) = 1
    /\ \E i \in DOMAIN Tokens : Tokens[i].source = "custom"

====
